---- MODULE Spec2Model ----
(***************************************************************************)
(* Model of eim.tools.analysis: the BioEmo sensor conversions (readings -> *)
(* volts -> ohms -> siemens), the ohms/siemens reciprocals and the six     *)
(* unit_to_* rescalers.                                                    *)
(*                                                                         *)
(* The functions compute with Python floats and numpy float64 values, so   *)
(* the model carries IEEE-754 binary64 arithmetic (round to nearest, ties  *)
(* to even, subnormals, signed zeros, infinities, NaN).  A significand     *)
(* has 53 bits, more than an integer of TLC holds, so significands *)
(* are little-endian sequences of 15-bit limbs.                            *)
(***************************************************************************)
EXTENDS Integers, Sequences, FiniteSets, TLC

\* ------------------------------------------------------------------------
\* Natural numbers of any size: little-endian limbs, no high zero limb,
\* zero is << >>.
\* ------------------------------------------------------------------------

LimbBits == 15

Base == 2 ^ LimbBits

Max(a, b) == IF a >= b THEN a ELSE b

Min(a, b) == IF a <= b THEN a ELSE b

Limb(a, i) == IF i >= 1 /\ i <= Len(a) THEN a[i] ELSE 0

RECURSIVE BNorm(_)
BNorm(a) ==
    IF Len(a) > 0 /\ a[Len(a)] = 0 THEN BNorm(SubSeq(a, 1, Len(a) - 1)) ELSE a

RECURSIVE BFromInt(_)
BFromInt(n) == IF n = 0 THEN << >> ELSE << n % Base >> \o BFromInt(n \div Base)

RECURSIVE BAddFrom(_, _, _, _)
BAddFrom(a, b, i, c) ==
    IF i > Max(Len(a), Len(b))
    THEN IF c = 0 THEN << >> ELSE << c >>
    ELSE LET s == Limb(a, i) + Limb(b, i) + c
         IN  << s % Base >> \o BAddFrom(a, b, i + 1, s \div Base)

BAdd(a, b) == BAddFrom(a, b, 1, 0)

\* a - b for a >= b
RECURSIVE BSubFrom(_, _, _, _)
BSubFrom(a, b, i, c) ==
    IF i > Len(a)
    THEN << >>
    ELSE LET d == Limb(a, i) - Limb(b, i) - c
         IN  IF d < 0
             THEN << d + Base >> \o BSubFrom(a, b, i + 1, 1)
             ELSE << d >> \o BSubFrom(a, b, i + 1, 0)

BSub(a, b) == BNorm(BSubFrom(a, b, 1, 0))

\* -1, 0, 1 as a < b, a = b, a > b
RECURSIVE BCmpFrom(_, _, _)
BCmpFrom(a, b, i) ==
    IF i = 0 THEN 0
    ELSE IF a[i] < b[i] THEN -1
    ELSE IF a[i] > b[i] THEN 1
    ELSE BCmpFrom(a, b, i - 1)

BCmp(a, b) ==
    IF Len(a) < Len(b) THEN -1
    ELSE IF Len(a) > Len(b) THEN 1
    ELSE BCmpFrom(a, b, Len(a))

RECURSIVE BMulLimbFrom(_, _, _, _)
BMulLimbFrom(a, d, i, c) ==
    IF i > Len(a)
    THEN IF c = 0 THEN << >> ELSE << c >>
    ELSE LET p == a[i] * d + c
         IN  << p % Base >> \o BMulLimbFrom(a, d, i + 1, p \div Base)

BMulLimb(a, d) == IF d = 0 THEN << >> ELSE BMulLimbFrom(a, d, 1, 0)

RECURSIVE BMul(_, _)
BMul(a, b) ==
    IF a = << >> \/ b = << >>
    THEN << >>
    ELSE BNorm(BAdd(BMulLimb(a, Head(b)), << 0 >> \o BMul(a, Tail(b))))

RECURSIVE LimbLen(_)
LimbLen(x) == IF x = 0 THEN 0 ELSE 1 + LimbLen(x \div 2)

\* number of bits of a
BLen(a) == IF a = << >> THEN 0 ELSE LimbBits * (Len(a) - 1) + LimbLen(a[Len(a)])

\* bit i of a, bit 0 the lowest
BBit(a, i) == (Limb(a, (i \div LimbBits) + 1) \div (2 ^ (i % LimbBits))) % 2

\* a * 2^k
BShl(a, k) ==
    IF a = << >> THEN << >>
    ELSE [i \in 1..(k \div LimbBits) |-> 0] \o BMulLimb(a, 2 ^ (k % LimbBits))

\* a \div 2^k
BShr(a, k) ==
    LET q == k \div LimbBits
        r == k % LimbBits
    IN  IF Len(a) <= q THEN << >>
        ELSE BNorm([i \in 1..(Len(a) - q) |->
                       (a[i + q] \div (2 ^ r))
                       + (Limb(a, i + q + 1) % (2 ^ r)) * (2 ^ (LimbBits - r))])

\* whether a % 2^k is not 0
BLowBits(a, k) ==
    LET q == k \div LimbBits
        r == k % LimbBits
    IN  \/ \E i \in 1..Min(q, Len(a)) : a[i] # 0
        \/ Limb(a, q + 1) % (2 ^ r) # 0

\* 2a + bit
BDbl(a, bit) ==
    BNorm([i \in 1..(Len(a) + 1) |->
              ((Limb(a, i) * 2) % Base)
              + (IF i = 1 THEN bit ELSE a[i - 1] \div (Base \div 2))])

\* Long division by limbs.  d is normalised (its high limb is at least
\* Base \div 2), so the high two limbs of the remainder r divided by the high
\* limb of d estimate the next quotient limb, at most 2 too high; p is d times
\* the estimate.
RECURSIVE BDivFix(_, _, _, _)
BDivFix(r, d, qhat, p) ==
    IF BCmp(p, r) > 0
    THEN BDivFix(r, d, qhat - 1, BSub(p, d))
    ELSE << qhat, BSub(r, p) >>

BDivEstimate(r, d) ==
    Min(Base - 1,
        (Limb(r, Len(d) + 1) * Base + Limb(r, Len(d))) \div d[Len(d)])

BDivDigit(r, d, qhat) == BDivFix(r, d, qhat, BMulLimb(d, qhat))

\* the quotient q gains the limb of qr = << limb, remainder >> as its lowest
BDivPush(q, qr) == << BNorm(<< Head(qr) >> \o q), Head(Tail(qr)) >>

BDivNext(q, r, d) == BDivPush(q, BDivDigit(r, d, BDivEstimate(r, d)))

\* st is << quotient, remainder >> of the limbs of n above limb i
RECURSIVE BDivStep(_, _, _, _)
BDivStep(n, d, i, st) ==
    IF Len(st) = 2 /\ i >= 1
    THEN BDivStep(n, d, i - 1,
                  BDivNext(Head(st), BNorm(<< n[i] >> \o Head(Tail(st))), d))
    ELSE st

BDivNormal(n, d) == BDivStep(n, d, Len(n), << << >>, << >> >>)

BDivUnshift(qr, k) == << Head(qr), BShr(Head(Tail(qr)), k) >>

\* << n \div d, n % d >> for d # 0
BDivMod(n, d) ==
    BDivUnshift(BDivNormal(BShl(n, LimbBits - LimbLen(d[Len(d)])),
                           BShl(d, LimbBits - LimbLen(d[Len(d)]))),
                LimbBits - LimbLen(d[Len(d)]))

\* ------------------------------------------------------------------------
\* IEEE-754 binary64, the float of Python and the float64 of numpy.
\* A finite nonzero value is (-1)^s * m * 2^e with m < 2^53 and either
\* m >= 2^52 (normal) or e = EMin (subnormal).
\* ------------------------------------------------------------------------

Precision == 53

EMin == 0 - 1074

EMax == 971

FZero(s) == [c |-> "zero", s |-> s, m |-> << >>, e |-> 0]

FInf(s) == [c |-> "inf", s |-> s, m |-> << >>, e |-> 0]

FNaN == [c |-> "nan", s |-> 0, m |-> << >>, e |-> 0]

FFin(s, m, e) == [c |-> "fin", s |-> s, m |-> m, e |-> e]

FPack(s, m, e) ==
    IF m = << >> THEN FZero(s)
    ELSE IF e > EMax THEN FInf(s)
    ELSE FFin(s, m, e)

\* a significand that rounding up has carried out of 53 bits is 2^53
FCarry(s, m, e) ==
    IF BLen(m) > Precision THEN FPack(s, BShr(m, 1), e + 1) ELSE FPack(s, m, e)

\* round to nearest, ties to even: the float nearest (-1)^s * (M + d) * 2^E,
\* where 0 <= d < 1 and d > 0 exactly when sticky
FRoundAt(s, M, E, sticky, e2) ==
    IF e2 <= E
    THEN FPack(s, BShl(M, E - e2), e2)
    ELSE IF /\ BBit(M, e2 - E - 1) = 1
            /\ (sticky \/ BLowBits(M, e2 - E - 1) \/ BBit(M, e2 - E) = 1)
         THEN FCarry(s, BAdd(BShr(M, e2 - E), << 1 >>), e2)
         ELSE FPack(s, BShr(M, e2 - E), e2)

FRound(s, M, E, sticky) ==
    IF M = << >> THEN FZero(s)
    ELSE FRoundAt(s, M, E, sticky, Max(E + BLen(M) - Precision, EMin))

FFromInt(n) ==
    IF n < 0 THEN FRound(1, BFromInt(0 - n), 0, FALSE)
    ELSE FRound(0, BFromInt(n), 0, FALSE)

FNeg(a) == IF a.c = "nan" THEN a ELSE [a EXCEPT !.s = 1 - a.s]

FSignXor(a, b) == (a.s + b.s) % 2

FMul(a, b) ==
    IF a.c = "nan" \/ b.c = "nan" THEN FNaN
    ELSE IF a.c = "inf" \/ b.c = "inf"
    THEN IF a.c = "zero" \/ b.c = "zero" THEN FNaN ELSE FInf(FSignXor(a, b))
    ELSE IF a.c = "zero" \/ b.c = "zero" THEN FZero(FSignXor(a, b))
    ELSE FRound(FSignXor(a, b), BMul(a.m, b.m), a.e + b.e, FALSE)

\* the quotient is computed to at least 55 bits, the remainder is the sticky bit
FDivRound(s, qr, E) == FRound(s, Head(qr), E, Head(Tail(qr)) # << >>)

FDivFin(s, ma, ea, mb, eb, k) ==
    FDivRound(s, BDivMod(BShl(ma, k), mb), ea - eb - k)

\* IEEE division: x / 0 is an infinity, 0 / 0 and inf / inf are NaN
FDiv(a, b) ==
    IF a.c = "nan" \/ b.c = "nan" THEN FNaN
    ELSE IF a.c = "inf"
    THEN IF b.c = "inf" THEN FNaN ELSE FInf(FSignXor(a, b))
    ELSE IF b.c = "inf" THEN FZero(FSignXor(a, b))
    ELSE IF b.c = "zero"
    THEN IF a.c = "zero" THEN FNaN ELSE FInf(FSignXor(a, b))
    ELSE IF a.c = "zero" THEN FZero(FSignXor(a, b))
    ELSE FDivFin(FSignXor(a, b), a.m, a.e, b.m, b.e,
                 Max(0, Precision + 2 + BLen(b.m) - BLen(a.m)))

\* a + b for finite nonzero a, b with a.e >= b.e
FAddAligned(sa, A, sb, B, e) ==
    IF sa = sb THEN FRound(sa, BAdd(A, B), e, FALSE)
    ELSE IF BCmp(A, B) = 0 THEN FZero(0)
    ELSE IF BCmp(A, B) > 0 THEN FRound(sa, BSub(A, B), e, FALSE)
    ELSE FRound(sb, BSub(B, A), e, FALSE)

FAddOrdered(a, b) ==
    IF a.e - b.e > Precision + 11
    THEN \* b is below a quarter of a's last place: it only makes the sum inexact
         IF a.s = b.s THEN FRound(a.s, BShl(a.m, 3), a.e - 3, TRUE)
         ELSE FRound(a.s, BSub(BShl(a.m, 3), << 1 >>), a.e - 3, TRUE)
    ELSE FAddAligned(a.s, BShl(a.m, a.e - b.e), b.s, b.m, b.e)

FAdd(a, b) ==
    IF a.c = "nan" \/ b.c = "nan" THEN FNaN
    ELSE IF a.c = "inf"
    THEN IF b.c = "inf" /\ a.s # b.s THEN FNaN ELSE a
    ELSE IF b.c = "inf" THEN b
    ELSE IF a.c = "zero"
    THEN IF b.c = "zero" THEN FZero(IF a.s = 1 /\ b.s = 1 THEN 1 ELSE 0) ELSE b
    ELSE IF b.c = "zero" THEN a
    ELSE IF a.e >= b.e THEN FAddOrdered(a, b)
    ELSE FAddOrdered(b, a)

FSub(a, b) == FAdd(a, FNeg(b))

\* a == b of floats: NaN equals nothing, the two zeros are equal
FEq(a, b) ==
    /\ a.c # "nan"
    /\ b.c # "nan"
    /\ \/ a = b
       \/ a.c = "zero" /\ b.c = "zero"

\* ------------------------------------------------------------------------
\* Python and numpy values.  Every value is [k |-> kind, v |-> payload].
\* ------------------------------------------------------------------------

PyInt(n) == [k |-> "int", v |-> n]

PyFloat(f) == [k |-> "float", v |-> f]

PyStr(s) == [k |-> "str", v |-> s]

PyNone == [k |-> "NoneType", v |-> 0]

PyList(items) == [k |-> "list", v |-> items]

\* a numpy scalar
NpFloat64(f) == [k |-> "float64", v |-> f]

\* an array of nd dimensions (0 or 1); the items of an int64 array are
\* integers, of a float64 array floats, of a str array strings, of an object
\* array Python values
NdArray(dtype, nd, items) ==
    [k |-> "ndarray", v |-> [dtype |-> dtype, nd |-> nd, items |-> items]]

\* the outcome of an expression that raised
Raise(exc) == [k |-> "raise", v |-> exc]

IsRaise(x) == x.k = "raise"

\* a reference to object o of the heap (an argument as the caller passed it)
Ref(o) == [k |-> "ref", v |-> o]

IsNumber(x) == x.k \in {"int", "float", "float64"}

\* float(x) of a number
AsFloat(x) == IF x.k = "int" THEN FFromInt(x.v) ELSE x.v

\* the literals of the code
F1 == FFromInt(1)

F5 == FFromInt(5)

F1000 == FFromInt(1000)

F1023 == FFromInt(1023)

F1e6 == FFromInt(1000000)

F1e9 == FFromInt(1000000000)

\* 0.861 = 0x1.b8d4fdf3b645ap-1
F0_861 == FFin(0, << 25690, 15990, 13631, 220 >>, 0 - 53)

\* 0.00117 = 0x1.32b55ef1fddecp-10
F0_00117 == FFin(0, << 24044, 24127, 11607, 153 >>, 0 - 62)

\* the dtype numpy gives a flat list
ListDtype(items) ==
    IF \E i \in DOMAIN items : ~(IsNumber(items[i]) \/ items[i].k = "str")
    THEN "object"
    ELSE IF \E i \in DOMAIN items : items[i].k = "str" THEN "str"
    ELSE IF items # << >> /\ \A i \in DOMAIN items : items[i].k = "int" THEN "int64"
    ELSE "float64"

\* an item of a list as an item of an array of the dtype (the text numpy gives
\* a number in a str array is never read: every operation on a str array raises)
ListItem(dtype, x) ==
    IF dtype = "int64" THEN x.v
    ELSE IF dtype = "float64" THEN AsFloat(x)
    ELSE IF dtype = "str" THEN (IF x.k = "str" THEN x.v ELSE "<number>")
    ELSE x

ListToArray(items, dtype) ==
    NdArray(dtype, 1, [i \in DOMAIN items |-> ListItem(dtype, items[i])])

\* np.asarray: an array is returned as it is, a scalar becomes a 0-d array, a
\* list a 1-d array, anything else a 0-d object array; it never raises here
np_asarray(x) ==
    IF IsRaise(x) \/ x.k = "ndarray" THEN x
    ELSE IF x.k = "int" THEN NdArray("int64", 0, << x.v >>)
    ELSE IF x.k \in {"float", "float64"} THEN NdArray("float64", 0, << x.v >>)
    ELSE IF x.k = "str" THEN NdArray("str", 0, << x.v >>)
    ELSE IF x.k = "list" THEN ListToArray(x.v, ListDtype(x.v))
    ELSE NdArray("object", 0, << x >>)

\* the float operation behind an operator
FOp(op, a, b) ==
    IF op = "div" THEN FDiv(a, b)
    ELSE IF op = "mul" THEN FMul(a, b)
    ELSE FSub(a, b)

\* a op b of two Python numbers (int or float, one of them a float): a float,
\* and a division by zero raises
PyNumOp(op, a, b) ==
    IF op = "div" /\ AsFloat(b).c = "zero" THEN Raise("ZeroDivisionError")
    ELSE PyFloat(FOp(op, AsFloat(a), AsFloat(b)))

\* a op b where one side is a numpy float64 scalar and the other a number:
\* IEEE arithmetic, a division by zero gives inf or nan (and a warning)
NpNumOp(op, a, b) == NpFloat64(FOp(op, AsFloat(a), AsFloat(b)))

\* a op b of two Python objects that are not arrays: a str, a list or None with
\* a float has no such operation
PyScalarOp(op, a, b) ==
    IF ~(IsNumber(a) /\ IsNumber(b)) THEN Raise("TypeError")
    ELSE IF a.k = "float64" \/ b.k = "float64" THEN NpNumOp(op, a, b)
    ELSE PyNumOp(op, a, b)

\* the first exception of a sequence of outcomes, if any
FirstRaise(outs) ==
    LET bad == {i \in DOMAIN outs : IsRaise(outs[i])}
    IN  outs[CHOOSE i \in bad : \A j \in bad : i <= j]

\* the items of a numeric array as floats
FloatItem(dtype, x) == IF dtype = "int64" THEN FFromInt(x) ELSE x

\* a ufunc result: a 0-d result is returned as a scalar
NpResult(dtype, nd, items) ==
    IF nd # 0 THEN NdArray(dtype, nd, items)
    ELSE IF dtype = "float64" THEN NpFloat64(items[1])
    ELSE items[1]

\* the object loop of a ufunc calls the Python operator on each item in turn
\* and stops at the first that raises
NpObjectResult(nd, outs) ==
    IF \E i \in DOMAIN outs : IsRaise(outs[i]) THEN FirstRaise(outs)
    ELSE NpResult("object", nd, outs)

\* array op number (arrayLeft) or number op array, item by item
NpArrayOp(op, arr, num, arrayLeft) ==
    IF arr.dtype = "str" THEN Raise("TypeError")
    ELSE IF arr.dtype = "object"
    THEN NpObjectResult(arr.nd,
             [i \in DOMAIN arr.items |->
                 IF arrayLeft THEN PyScalarOp(op, arr.items[i], num)
                 ELSE PyScalarOp(op, num, arr.items[i])])
    ELSE NpResult("float64", arr.nd,
             [i \in DOMAIN arr.items |->
                 IF arrayLeft
                 THEN FOp(op, FloatItem(arr.dtype, arr.items[i]), AsFloat(num))
                 ELSE FOp(op, AsFloat(num), FloatItem(arr.dtype, arr.items[i]))])

\* the Python expression a op b, for op one of / * - and one side a number
PyArith(op, a, b) ==
    IF IsRaise(a) THEN a
    ELSE IF IsRaise(b) THEN b
    ELSE IF a.k = "ndarray"
    THEN IF IsNumber(b) THEN NpArrayOp(op, a.v, b, TRUE) ELSE Raise("TypeError")
    ELSE IF b.k = "ndarray"
    THEN IF IsNumber(a) THEN NpArrayOp(op, b.v, a, FALSE) ELSE Raise("TypeError")
    ELSE PyScalarOp(op, a, b)

\* ------------------------------------------------------------------------
\* np.log.  The natural logarithm of a positive finite float other than 1 is
\* the C library's; it is tabulated for the floats the model's inputs lead to.
\* ------------------------------------------------------------------------

LogTable ==
    {
      \* log(5e-324) = -744.4400719213812
      << FFin(0, << 1 >>, -1074),
         FFin(1, << 29123, 2266, 3605, 186 >>, -43) >>,
      \* log(0.00010293515890081588) = -9.181411293203647
      << FFin(0, << 16993, 8434, 28530, 215 >>, -66),
         FFin(1, << 24213, 25037, 29575, 146 >>, -49) >>,
      \* log(0.0024437927663734115) = -6.014204034077472
      << FFin(0, << 5125, 160, 5125, 160 >>, -61),
         FFin(1, << 22023, 302, 14894, 192 >>, -50) >>,
      \* log(0.004887585532746823) = -5.321056853517526
      << FFin(0, << 5125, 160, 5125, 160 >>, -60),
         FFin(1, << 3785, 16752, 8972, 170 >>, -50) >>,
      \* log(0.009775171065493646) = -4.627909672957581
      << FFin(0, << 5125, 160, 5125, 160 >>, -59),
         FFin(1, << 18315, 433, 3051, 148 >>, -50) >>,
      \* log(0.01466275659824047) = -4.222444564849416
      << FFin(0, << 7688, 16624, 7687, 240 >>, -59),
         FFin(1, << 19974, 1049, 3874, 135 >>, -50) >>,
      \* log(0.019550342130987292) = -3.9347624923976356
      << FFin(0, << 5125, 160, 5125, 160 >>, -58),
         FFin(1, << 154, 998, 27027, 251 >>, -51) >>,
      \* log(0.021060533511106927) = -3.86035443968612
      << FFin(0, << 832, 30037, 17297, 172 >>, -58),
         FFin(1, << 23745, 1110, 2054, 247 >>, -51) >>,
      \* log(0.024437927663734114) = -3.711618941083426
      << FFin(0, << 6406, 8392, 6406, 200 >>, -58),
         FFin(1, << 22264, 2802, 17813, 237 >>, -51) >>,
      \* log(0.02932551319648094) = -3.529297384289471
      << FFin(0, << 7688, 16624, 7687, 240 >>, -58),
         FFin(1, << 3472, 2230, 28673, 225 >>, -51) >>,
      \* log(0.03421309872922776) = -3.375146704462213
      << FFin(0, << 4484, 12428, 4484, 140 >>, -57),
         FFin(1, << 28774, 21677, 307, 216 >>, -51) >>,
      \* log(0.23949169110459434) = -1.4292365554068995
      << FFin(0, << 7848, 21749, 7847, 245 >>, -55),
         FFin(1, << 1652, 19703, 30876, 182 >>, -52) >>,
      \* log(0.5) = -0.6931471805599453
      << FFin(0, << 0, 0, 0, 128 >>, -53),
         FFin(1, << 14831, 32244, 14603, 177 >>, -53) >>,
      \* log(2.0) = 0.6931471805599453
      << FFin(0, << 0, 0, 0, 128 >>, -51),
         FFin(0, << 14831, 32244, 14603, 177 >>, -53) >>,
      \* log(2.5024437927663734) = 0.9172677715219817
      << FFin(0, << 5125, 160, 5125, 160 >>, -51),
         FFin(0, << 4900, 25111, 26887, 234 >>, -53) >>,
      \* log(3.0) = 1.0986122886681098
      << FFin(0, << 0, 0, 0, 192 >>, -51),
         FFin(0, << 779, 30042, 20393, 140 >>, -52) >>,
      \* log(4.0) = 1.3862943611198906
      << FFin(0, << 0, 0, 0, 128 >>, -50),
         FFin(0, << 14831, 32244, 14603, 177 >>, -52) >>,
      \* log(5.0) = 1.6094379124341003
      << FFin(0, << 0, 0, 0, 160 >>, -50),
         FFin(0, << 3379, 28635, 263, 206 >>, -52) >>,
      \* log(6.0) = 1.791759469228055
      << FFin(0, << 0, 0, 0, 192 >>, -50),
         FFin(0, << 8194, 29780, 11311, 229 >>, -52) >>,
      \* log(7.0) = 1.9459101490553132
      << FFin(0, << 0, 0, 0, 224 >>, -50),
         FFin(0, << 23127, 23652, 2506, 249 >>, -52) >>,
      \* log(49.0) = 3.8918202981106265
      << FFin(0, << 0, 0, 0, 196 >>, -47),
         FFin(0, << 23127, 23652, 2506, 249 >>, -51) >>,
      \* log(512.0) = 6.238324625039508
      << FFin(0, << 0, 0, 0, 128 >>, -43),
         FFin(0, << 301, 15795, 20525, 199 >>, -50) >>,
      \* log(1023.0) = 6.930494765951626
      << FFin(0, << 0, 0, 24576, 255 >>, -43),
         FFin(0, << 29205, 15718, 25422, 221 >>, -50) >>
    }

\* log of a float: log(0) = -inf, log of a negative number is nan, log(1) = 0
FLog(f) ==
    IF f.c = "nan" THEN FNaN
    ELSE IF f.c = "zero" THEN FInf(1)
    ELSE IF f.s = 1 THEN FNaN
    ELSE IF f.c = "inf" THEN FInf(0)
    ELSE IF f = F1 THEN FZero(0)
    ELSE (CHOOSE p \in LogTable : p[1] = f)[2]

\* np.log of an array: a str array has no loop for log (TypeError); on an
\* object array numpy calls each item's log method, which none has: TypeError
\* in a current numpy, AttributeError in the numpy of the time of this code
\* (logError says which the installed numpy raises)
np_log(logError, x) ==
    IF IsRaise(x) THEN x
    ELSE IF x.v.dtype = "str" THEN Raise("TypeError")
    ELSE IF x.v.dtype = "object" THEN Raise(logError)
    ELSE NpResult("float64", x.v.nd,
             [i \in DOMAIN x.v.items |-> FLog(FloatItem(x.v.dtype, x.v.items[i]))])

\* ------------------------------------------------------------------------
\* The functions of eim/tools/analysis.py whose bodies compute (the others
\* only call these, see Callees).
\* ------------------------------------------------------------------------

\* a faulty variant: the range taken as 2^10 instead of 1023
bioemo_readings_to_volts_1024(readings) ==
    PyArith("mul", PyArith("div", np_asarray(readings), PyFloat(FFromInt(1024))),
            PyFloat(F5))

bioemo_readings_to_volts(readings) ==
    PyArith("mul", PyArith("div", np_asarray(readings), PyFloat(F1023)), PyFloat(F5))

\* left = 0.861 / 0.00117
bioemo_left == PyArith("div", PyFloat(F0_861), PyFloat(F0_00117))

\* right = 1. / 0.00117
bioemo_right == PyArith("div", PyFloat(F1), PyFloat(F0_00117))

bioemo_volts_to_ohms(logError, volts) ==
    PyArith("mul",
            PyArith("sub", bioemo_left,
                    PyArith("mul", bioemo_right, np_log(logError, np_asarray(volts)))),
            PyInt(1000))

\* a faulty variant: the argument is not made an array, so a Python number
\* is divided by Python's rules
ohms_to_siemens_python(ohms) == PyArith("div", PyFloat(F1), ohms)

ohms_to_siemens(ohms) == PyArith("div", PyFloat(F1), np_asarray(ohms))

unit_to_kilounit(measure) == PyArith("div", measure, PyFloat(F1000))

unit_to_megaunit(measure) == PyArith("div", measure, PyFloat(F1e6))

\* a faulty variant: giga taken as 1e6
unit_to_gigaunit_mega(measure) == PyArith("div", measure, PyFloat(F1e6))

unit_to_gigaunit(measure) == PyArith("div", measure, PyFloat(F1e9))

\* a faulty variant: milli taken as 1e6
unit_to_milliunit_micro(measure) == PyArith("mul", measure, PyFloat(F1e6))

unit_to_milliunit(measure) == PyArith("mul", measure, PyFloat(F1000))

unit_to_microunit(measure) == PyArith("mul", measure, PyFloat(F1e6))

unit_to_nanounit(measure) == PyArith("mul", measure, PyFloat(F1e9))

\* the functions a caller can call
Functions ==
    { "bioemo_readings_to_volts", "bioemo_volts_to_ohms", "bioemo_volts_to_siemens",
      "bioemo_readings_to_siemens", "ohms_to_siemens", "siemens_to_ohms",
      "unit_to_kilounit", "unit_to_megaunit", "unit_to_gigaunit",
      "unit_to_milliunit", "unit_to_microunit", "unit_to_nanounit" }

\* a faulty variant: bioemo_readings_to_siemens passes the readings on as volts
Callees_no_volts(f) ==
    IF f = "bioemo_volts_to_siemens"
    THEN << "bioemo_volts_to_ohms", "ohms_to_siemens" >>
    ELSE IF f = "bioemo_readings_to_siemens"
    THEN << "np_asarray", "bioemo_volts_to_siemens" >>
    ELSE IF f = "siemens_to_ohms"
    THEN << "ohms_to_siemens" >>
    ELSE << >>

\* a faulty variant: siemens_to_ohms returns its argument without the reciprocal
Callees_no_reciprocal(f) ==
    IF f = "bioemo_volts_to_siemens"
    THEN << "bioemo_volts_to_ohms", "ohms_to_siemens" >>
    ELSE IF f = "bioemo_readings_to_siemens"
    THEN << "np_asarray", "bioemo_readings_to_volts", "bioemo_volts_to_siemens" >>
    ELSE IF f = "siemens_to_ohms"
    THEN << "np_asarray" >>
    ELSE << >>

\* a faulty variant: siemens_to_ohms calls the sensor's conversion
Callees_wrong_callee(f) ==
    IF f = "bioemo_volts_to_siemens"
    THEN << "bioemo_volts_to_ohms", "ohms_to_siemens" >>
    ELSE IF f = "bioemo_readings_to_siemens"
    THEN << "np_asarray", "bioemo_readings_to_volts", "bioemo_volts_to_siemens" >>
    ELSE IF f = "siemens_to_ohms"
    THEN << "bioemo_volts_to_siemens" >>
    ELSE << >>

\* the calls a function's body makes, in order, each on the value the one
\* before returned: bioemo_volts_to_siemens, bioemo_readings_to_siemens and
\* siemens_to_ohms compute nothing themselves
Callees(f) ==
    IF f = "bioemo_volts_to_siemens"
    THEN << "bioemo_volts_to_ohms", "ohms_to_siemens" >>
    ELSE IF f = "bioemo_readings_to_siemens"
    THEN << "np_asarray", "bioemo_readings_to_volts", "bioemo_volts_to_siemens" >>
    ELSE IF f = "siemens_to_ohms"
    THEN << "ohms_to_siemens" >>
    ELSE << >>

\* what f returns (or raises) on the value x
Body(logError, f, x) ==
    IF f = "np_asarray" THEN np_asarray(x)
    ELSE IF f = "bioemo_readings_to_volts" THEN bioemo_readings_to_volts(x)
    ELSE IF f = "bioemo_volts_to_ohms" THEN bioemo_volts_to_ohms(logError, x)
    ELSE IF f = "ohms_to_siemens" THEN ohms_to_siemens(x)
    ELSE IF f = "unit_to_kilounit" THEN unit_to_kilounit(x)
    ELSE IF f = "unit_to_megaunit" THEN unit_to_megaunit(x)
    ELSE IF f = "unit_to_gigaunit" THEN unit_to_gigaunit(x)
    ELSE IF f = "unit_to_milliunit" THEN unit_to_milliunit(x)
    ELSE IF f = "unit_to_microunit" THEN unit_to_microunit(x)
    ELSE unit_to_nanounit(x)

\* a faulty variant: bioemo_readings_to_volts divides and multiplies in place
\* (readings /= 1023.; readings *= 5.), which writes into a float64 array
ArgAfter_in_place(f, x) ==
    IF f = "bioemo_readings_to_volts" /\ x.k = "ndarray" /\ x.v.dtype = "float64"
    THEN bioemo_readings_to_volts(x)
    ELSE x

\* the argument object after f has run on it: no function assigns into its
\* argument (readings = np.asarray(readings) rebinds the local name, and
\* / * - each allocate their result)
ArgAfter(f, x) == x

\* what a call of the functions fs, each on the outcome of the one before,
\* gives on the value x when nothing else runs
RECURSIVE Run(_, _, _)
Run(le, fs, x) ==
    IF fs = << >> \/ IsRaise(x) THEN x
    ELSE IF Callees(Head(fs)) # << >> THEN Run(le, Callees(Head(fs)) \o Tail(fs), x)
    ELSE Run(le, Tail(fs), Body(le, Head(fs), x))

Apply(le, f, x) == Run(le, << f >>, x)

\* ------------------------------------------------------------------------
\* Callers.  A caller passes an object of the heap to a function; the call
\* runs the function's body, callee by callee, and returns or raises.
\* ------------------------------------------------------------------------

VARIABLES
    logError,   \* the exception np.log raises on an object array (the numpy installed)
    heap,       \* the objects callers pass, heap[o] the value of object o
    pc,         \* pc[t]: "idle", "running" (in a call) or "done" (the call has ended)
    fn,         \* fn[t]: the function caller t called
    arg,        \* arg[t]: the object it passed
    cur,        \* cur[t]: the value the call is working on, in the end its outcome
    todo        \* todo[t]: the functions the call has still to run, innermost first

vars == << logError, heap, pc, fn, arg, cur, todo >>

\* the integers -IntRange .. IntRange are among the inputs
IntRange == 2

\* 5e-324, the least positive float
FMinSubnormal == FFin(0, << 1 >>, EMin)

\* 0.021060533511106927 = 0x1.590e47aaa8340p-6
F0_02106 == FFin(0, << 832, 30037, 17297, 172 >>, 0 - 58)

F0_5 == FFin(0, << 0, 0, 0, 128 >>, 0 - 53)

SmallInts == [i \in 1..(2 * IntRange + 1) |-> PyInt(i - IntRange - 1)]

\* the objects of the heap: numbers, values that are no numbers, lists, an array
Objects ==
    SmallInts \o
    << PyInt(49), PyInt(512), PyInt(1023),
       PyFloat(F0_02106), PyFloat(FMinSubnormal), PyFloat(FInf(0)), PyFloat(FNaN),
       NpFloat64(FFromInt(2)),
       PyStr("abc"), PyNone,
       PyList(<< PyInt(1), PyInt(2), PyInt(3) >>),
       PyList(<< PyFloat(F0_5), PyInt(0) >>),
       PyList(<< PyInt(0), PyNone >>),
       PyList(<< PyStr("a"), PyStr("b") >>),
       NdArray("float64", 1, << F0_5, FFromInt(4) >>) >>

\* the object concurrent callers share: an array, which np.asarray does not copy
SharedObjects == << NdArray("float64", 1, << F0_5, FFromInt(4) >>) >>

NumCallers == 2

InitCallers(n, objects, errors) ==
    /\ logError \in errors
    /\ heap = objects
    /\ pc = [t \in 1..n |-> "idle"]
    /\ fn = [t \in 1..n |-> "none"]
    /\ arg = [t \in 1..n |-> 0]
    /\ cur = [t \in 1..n |-> PyNone]
    /\ todo = [t \in 1..n |-> << >>]

\* one caller, every object, either numpy
Init == InitCallers(1, Objects, {"TypeError", "AttributeError"})

\* concurrent callers of one array (no object array arises, so the numpy
\* installed makes no difference)
InitPar == InitCallers(NumCallers, SharedObjects, {"TypeError"})

Deref(h, x) == IF x.k = "ref" THEN h[x.v] ELSE x

\* caller t calls f(o)
Call(t, f, o) ==
    /\ pc[t] = "idle"
    /\ pc' = [pc EXCEPT ![t] = "running"]
    /\ fn' = [fn EXCEPT ![t] = f]
    /\ arg' = [arg EXCEPT ![t] = o]
    /\ cur' = [cur EXCEPT ![t] = Ref(o)]
    /\ todo' = [todo EXCEPT ![t] = << f >>]
    /\ UNCHANGED << logError, heap >>

\* the body of a function that only calls others starts: its callees are next
Enter(t) ==
    /\ pc[t] = "running"
    /\ todo[t] # << >>
    /\ Callees(Head(todo[t])) # << >>
    /\ todo' = [todo EXCEPT ![t] = Callees(Head(todo[t])) \o Tail(todo[t])]
    /\ UNCHANGED << logError, heap, pc, fn, arg, cur >>

\* what running f leaves as the call's value: np.asarray of an array is that
\* array, not a copy
Outcome(f, c, x) ==
    IF f = "np_asarray" /\ c.k = "ref" /\ x.k = "ndarray" THEN c
    ELSE Body(logError, f, x)

\* an exception ends the call: nothing catches it
Proceed(t, out) ==
    /\ cur' = [cur EXCEPT ![t] = out]
    /\ todo' = [todo EXCEPT ![t] = IF IsRaise(out) THEN << >> ELSE Tail(todo[t])]

\* a function that computes runs on the call's value
Exec(t) ==
    /\ pc[t] = "running"
    /\ todo[t] # << >>
    /\ Callees(Head(todo[t])) = << >>
    /\ \E out \in {Outcome(Head(todo[t]), cur[t], Deref(heap, cur[t]))} : Proceed(t, out)
    /\ heap' = IF cur[t].k = "ref"
               THEN [heap EXCEPT ![cur[t].v] = ArgAfter(Head(todo[t]), heap[cur[t].v])]
               ELSE heap
    /\ UNCHANGED << logError, pc, fn, arg >>

\* the call returns its value, or its exception reaches the caller
Return(t) ==
    /\ pc[t] = "running"
    /\ todo[t] = << >>
    /\ pc' = [pc EXCEPT ![t] = "done"]
    /\ UNCHANGED << logError, heap, fn, arg, cur, todo >>

\* the caller has taken the outcome and can call again
Resume(t) ==
    /\ pc[t] = "done"
    /\ pc' = [pc EXCEPT ![t] = "idle"]
    /\ fn' = [fn EXCEPT ![t] = "none"]
    /\ arg' = [arg EXCEPT ![t] = 0]
    /\ cur' = [cur EXCEPT ![t] = PyNone]
    /\ UNCHANGED << logError, heap, todo >>

Calls == \E t \in DOMAIN pc, f \in Functions, o \in DOMAIN heap : Call(t, f, o)

Enters == \E t \in DOMAIN pc : Enter(t)

Execs == \E t \in DOMAIN pc : Exec(t)

Returns == \E t \in DOMAIN pc : Return(t)

Resumes == \E t \in DOMAIN pc : Resume(t)

Next == Calls \/ Enters \/ Execs \/ Returns \/ Resumes

Spec == Init /\ [][Next]_vars

SpecPar == InitPar /\ [][Next]_vars

\* ------------------------------------------------------------------------
\* Properties.
\* ------------------------------------------------------------------------

Done(t) == pc[t] = "done"

\* the value passed to the call of caller t, and the call's outcome
In(t) == heap[arg[t]]

Out(t) == cur[t]

\* a * 2^(a.e - e) as a natural number, for e <= a.e
FMag(a, e) == BShl(a.m, a.e - e)

\* a <= b for floats that are zero or positive and finite
FLessEq(a, b) ==
    IF a.c = "zero" THEN TRUE
    ELSE IF b.c = "zero" THEN FALSE
    ELSE BCmp(FMag(a, Min(a.e, b.e)), FMag(b, Min(a.e, b.e))) <= 0

\* | r - s | <= 2^-52 * | s | for finite nonzero floats
RelClose(r, s) ==
    /\ r.c = "fin"
    /\ s.c = "fin"
    /\ r.s = s.s
    /\ \/ /\ BCmp(FMag(r, Min(r.e, s.e)), FMag(s, Min(r.e, s.e))) >= 0
          /\ BCmp(BShl(BSub(FMag(r, Min(r.e, s.e)), FMag(s, Min(r.e, s.e))), 52),
                  FMag(s, Min(r.e, s.e))) <= 0
       \/ /\ BCmp(FMag(r, Min(r.e, s.e)), FMag(s, Min(r.e, s.e))) < 0
          /\ BCmp(BShl(BSub(FMag(s, Min(r.e, s.e)), FMag(r, Min(r.e, s.e))), 52),
                  FMag(s, Min(r.e, s.e))) <= 0

\* a normal float: finite, nonzero, with all 53 bits of significand
Normal(f) == f.c = "fin" /\ BLen(f.m) = Precision

NumberList(x) == x.k = "list" /\ \A i \in DOMAIN x.v : IsNumber(x.v[i])

\* neither a number nor a sequence of numbers
NotNumeric(x) ==
    \/ x.k \in {"str", "NoneType"}
    \/ x.k = "list" /\ \E i \in DOMAIN x.v : ~IsNumber(x.v[i])

\* an ADC reading: a number from 0 to 1023
ValidReading(x) ==
    /\ IsNumber(x)
    /\ AsFloat(x).c \in {"zero", "fin"}
    /\ AsFloat(x).c = "fin" => AsFloat(x).s = 0
    /\ FLessEq(AsFloat(x), F1023)

\* 2.5024437927663734 = 0x1.4050140501405p+1
F2_5024 == FFin(0, << 5125, 160, 5125, 160 >>, 0 - 51)

\* 0.001 = 0x1.0624dd2f1a9fcp-10
F0_001 == FFin(0, << 10748, 9699, 2359, 131 >>, 0 - 62)

\* 49.00000000000001 = 0x1.8800000000001p+5
F49_next == FFin(0, << 1, 0, 0, 196 >>, 0 - 47)

\* C1 (as claimed): every conversion function takes a list of N numbers to an
\* array of exactly N values, the i-th the function's value on the i-th number
\* as a scalar, and takes a scalar to a scalar.
C1_Elementwise ==
    \A t \in DOMAIN pc :
        Done(t) =>
            /\ NumberList(In(t)) =>
                   /\ Out(t).k = "ndarray"
                   /\ Out(t).v.nd = 1
                   /\ Out(t).v.dtype = "float64"
                   /\ Len(Out(t).v.items) = Len(In(t).v)
                   /\ \A i \in DOMAIN In(t).v :
                          /\ IsNumber(Apply(logError, fn[t], In(t).v[i]))
                          /\ Out(t).v.items[i]
                                 = AsFloat(Apply(logError, fn[t], In(t).v[i]))
            /\ IsNumber(In(t)) => IsNumber(Out(t))

\* C2 (as claimed): for every nonzero x,
\* unit_to_kilounit(unit_to_milliunit(x)) / 1e6 == x.
C2_Original ==
    \A t \in DOMAIN pc :
        (/\ Done(t)
         /\ fn[t] = "unit_to_milliunit"
         /\ IsNumber(In(t))
         /\ AsFloat(In(t)).c # "zero")
        => /\ IsNumber(PyArith("div", unit_to_kilounit(Out(t)), PyFloat(F1e6)))
           /\ FEq(AsFloat(PyArith("div", unit_to_kilounit(Out(t)), PyFloat(F1e6))),
                  AsFloat(In(t)))

\* C2 (amended): for every nonzero integer x (of magnitude below 2^53 / 1000,
\* so that 1000 x is a float), unit_to_kilounit(unit_to_milliunit(x)) == x,
\* with no division by 1e6.
C2_Amended ==
    \A t \in DOMAIN pc :
        (/\ Done(t)
         /\ fn[t] = "unit_to_milliunit"
         /\ In(t).k = "int"
         /\ In(t).v # 0)
        => /\ IsNumber(unit_to_kilounit(Out(t)))
           /\ FEq(AsFloat(unit_to_kilounit(Out(t))), FFromInt(In(t).v))

C2_Witness ==
    \E t \in DOMAIN pc :
        /\ Done(t)
        /\ fn[t] = "unit_to_milliunit"
        /\ In(t) = PyInt(49)
        /\ Out(t) = PyFloat(FFromInt(49000))

\* C3: for every valid scalar reading x, bioemo_readings_to_volts(x) equals
\* (x / 1023) * 5; reading 0 gives 0 volts, reading 1023 gives 5 volts (and
\* reading 512 the documented 2.5024437927663734).
C3_ReadingsToVolts ==
    \A t \in DOMAIN pc :
        (Done(t) /\ fn[t] = "bioemo_readings_to_volts" /\ ValidReading(In(t)))
        => /\ Out(t).k = "float64"
           /\ FEq(Out(t).v, FMul(FDiv(AsFloat(In(t)), F1023), F5))
           /\ In(t) = PyInt(0) => Out(t).v = FZero(0)
           /\ In(t) = PyInt(1023) => Out(t).v = F5
           /\ In(t) = PyInt(512) => Out(t).v = F2_5024

C3_Witness ==
    \E t \in DOMAIN pc :
        /\ Done(t)
        /\ fn[t] = "bioemo_readings_to_volts"
        /\ In(t) = PyInt(1023)
        /\ Out(t) = NpFloat64(F5)

\* C4 (as claimed): a value that is neither numeric nor coercible to a numeric
\* array makes every conversion function fail with a TypeError.
C4_TypeError ==
    \A t \in DOMAIN pc :
        (Done(t) /\ NotNumeric(In(t))) => Out(t) = Raise("TypeError")

\* C5: numeric edge cases never raise: the reciprocal of zero is an infinity,
\* and the sensor conversions of a zero or negative number give an infinity, a
\* nan, or the reciprocal of one.
C5_EdgeCases ==
    \A t \in DOMAIN pc :
        Done(t) =>
            /\ (/\ fn[t] \in {"ohms_to_siemens", "siemens_to_ohms"}
                /\ IsNumber(In(t))
                /\ AsFloat(In(t)).c = "zero")
               => Out(t) = NpFloat64(FInf(AsFloat(In(t)).s))
            /\ (/\ fn[t] = "bioemo_volts_to_ohms"
                /\ IsNumber(In(t))
                /\ AsFloat(In(t)).c = "zero")
               => Out(t) = NpFloat64(FInf(0))
            /\ (/\ fn[t] \in {"bioemo_volts_to_siemens", "bioemo_readings_to_siemens"}
                /\ IsNumber(In(t))
                /\ AsFloat(In(t)).c = "zero")
               => Out(t) = NpFloat64(FZero(0))
            /\ (/\ fn[t] \in {"bioemo_volts_to_ohms", "bioemo_volts_to_siemens",
                              "bioemo_readings_to_siemens"}
                /\ IsNumber(In(t))
                /\ AsFloat(In(t)).c \in {"fin", "inf"}
                /\ AsFloat(In(t)).s = 1)
               => Out(t) = NpFloat64(FNaN)

C5_Witness ==
    \E t \in DOMAIN pc :
        /\ Done(t)
        /\ fn[t] = "ohms_to_siemens"
        /\ In(t) = PyInt(0)
        /\ Out(t) = NpFloat64(FInf(0))

\* C6: bioemo_volts_to_siemens(V) is ohms_to_siemens(bioemo_volts_to_ohms(V)),
\* that is 1 / bioemo_volts_to_ohms(V), and bioemo_readings_to_siemens(r) is
\* bioemo_volts_to_siemens(bioemo_readings_to_volts(r)), for every input
\* (the same value, or the same exception).
C6_Chain ==
    \A t \in DOMAIN pc :
        Done(t) =>
            /\ fn[t] = "bioemo_volts_to_siemens" =>
                   /\ Out(t) = ohms_to_siemens(bioemo_volts_to_ohms(logError, In(t)))
                   /\ Out(t) = PyArith("div", PyFloat(F1),
                                       np_asarray(bioemo_volts_to_ohms(logError, In(t))))
            /\ fn[t] = "bioemo_readings_to_siemens" =>
                   Out(t) = ohms_to_siemens(
                                bioemo_volts_to_ohms(logError,
                                    bioemo_readings_to_volts(In(t))))

C6_Witness ==
    \E t \in DOMAIN pc :
        /\ Done(t)
        /\ fn[t] = "bioemo_readings_to_siemens"
        /\ In(t) = PyInt(512)
        /\ Out(t).k = "float64"
        /\ Out(t).v.c = "fin"

\* C7 (as claimed): for every nonzero s, ohms_to_siemens(siemens_to_ohms(s)) == s.
C7_Original ==
    \A t \in DOMAIN pc :
        (/\ Done(t)
         /\ fn[t] = "siemens_to_ohms"
         /\ IsNumber(In(t))
         /\ AsFloat(In(t)).c # "zero")
        => /\ IsNumber(ohms_to_siemens(Out(t)))
           /\ FEq(AsFloat(ohms_to_siemens(Out(t))), AsFloat(In(t)))

\* C7 (amended): for every nonzero s such that s and 1 / s are normal floats,
\* ohms_to_siemens(siemens_to_ohms(s)) is s up to the rounding of the two
\* divisions: it differs from s by at most 2^-52 * | s |.
C7_Amended ==
    \A t \in DOMAIN pc :
        (/\ Done(t)
         /\ fn[t] = "siemens_to_ohms"
         /\ IsNumber(In(t))
         /\ Normal(AsFloat(In(t)))
         /\ Normal(FDiv(F1, AsFloat(In(t)))))
        => /\ IsNumber(ohms_to_siemens(Out(t)))
           /\ RelClose(AsFloat(ohms_to_siemens(Out(t))), AsFloat(In(t)))

\* 49 comes back as 49.00000000000001
C7_Witness ==
    \E t \in DOMAIN pc :
        /\ Done(t)
        /\ fn[t] = "siemens_to_ohms"
        /\ In(t) = PyInt(49)
        /\ ohms_to_siemens(Out(t)) = NpFloat64(F49_next)

\* C8: siemens_to_ohms(x) has the outcome of ohms_to_siemens(x) for every
\* input x, zero and invalid inputs included: 1 / x for a number.
C8_SameFunction ==
    \A t \in DOMAIN pc :
        (Done(t) /\ fn[t] = "siemens_to_ohms")
        => /\ Out(t) = ohms_to_siemens(In(t))
           /\ IsNumber(In(t)) => Out(t) = NpFloat64(FDiv(F1, AsFloat(In(t))))

C8_Witness ==
    \E t \in DOMAIN pc :
        /\ Done(t)
        /\ fn[t] = "siemens_to_ohms"
        /\ In(t) = PyStr("abc")
        /\ Out(t) = Raise("TypeError")

\* the operation and the factor of each rescaler, as documented
UnitScale(f) ==
    IF f = "unit_to_kilounit" THEN << "div", F1000 >>
    ELSE IF f = "unit_to_megaunit" THEN << "div", F1e6 >>
    ELSE IF f = "unit_to_gigaunit" THEN << "div", F1e9 >>
    ELSE IF f = "unit_to_milliunit" THEN << "mul", F1000 >>
    ELSE IF f = "unit_to_microunit" THEN << "mul", F1e6 >>
    ELSE << "mul", F1e9 >>

UnitFunctions ==
    { "unit_to_kilounit", "unit_to_megaunit", "unit_to_gigaunit",
      "unit_to_milliunit", "unit_to_microunit", "unit_to_nanounit" }

\* C9: for every numeric x, unit_to_kilounit, unit_to_megaunit and
\* unit_to_gigaunit give x divided by 1e3, 1e6 and 1e9, and unit_to_milliunit,
\* unit_to_microunit and unit_to_nanounit x multiplied by 1e3, 1e6 and 1e9;
\* unit_to_kilounit(1) == 0.001 and unit_to_milliunit(1) == 1000.
C9_Rescale ==
    \A t \in DOMAIN pc :
        (Done(t) /\ fn[t] \in UnitFunctions) =>
            /\ IsNumber(In(t)) =>
                   /\ IsNumber(Out(t))
                   /\ AsFloat(Out(t))
                          = FOp(UnitScale(fn[t])[1], AsFloat(In(t)), UnitScale(fn[t])[2])
            /\ (In(t).k = "ndarray" /\ In(t).v.dtype = "float64") =>
                   Out(t) = NdArray("float64", In(t).v.nd,
                                [i \in DOMAIN In(t).v.items |->
                                    FOp(UnitScale(fn[t])[1], In(t).v.items[i],
                                        UnitScale(fn[t])[2])])
            /\ (fn[t] = "unit_to_kilounit" /\ In(t) = PyInt(1)) => Out(t) = PyFloat(F0_001)
            /\ (fn[t] = "unit_to_milliunit" /\ In(t) = PyInt(1)) => Out(t) = PyFloat(F1000)

C9_Witness ==
    \E t \in DOMAIN pc :
        /\ Done(t)
        /\ fn[t] = "unit_to_gigaunit"
        /\ In(t) = PyInt(1)
        /\ Out(t) = PyFloat(FDiv(F1, F1e9))

\* C10: under any interleaving of concurrent calls no call changes the object
\* it was passed, every call ends with the outcome it has when run alone on
\* that object, and two calls of one function on one object end alike.
C10_ParallelSafe ==
    /\ heap = SharedObjects
    /\ \A t \in DOMAIN pc :
           Done(t) => Out(t) = Apply(logError, fn[t], SharedObjects[arg[t]])
    /\ \A t, u \in DOMAIN pc :
           (Done(t) /\ Done(u) /\ fn[t] = fn[u] /\ arg[t] = arg[u]) => Out(t) = Out(u)

\* one caller's call has ended while another's call of the same function on
\* the same array is under way
C10_Witness ==
    \E t, u \in DOMAIN pc :
        /\ t # u
        /\ Done(t)
        /\ pc[u] = "running"
        /\ fn[t] = "bioemo_readings_to_siemens"
        /\ fn[u] = "bioemo_readings_to_siemens"
        /\ arg[t] = arg[u]
        /\ Len(todo[u]) = 2
        /\ Out(t).k = "ndarray"

====
